---- MODULE Spec2Model ----
(***************************************************************************)
(* Forced-spike simulation of a GLIF neuron:                               *)
(* allensdk/model/glif/glif_optimizer_neuron.py.                           *)
(*                                                                         *)
(* Numbers.  Voltages, thresholds and after-spike currents are integers,   *)
(* with the value NaN standing for a non-finite float.  Times on the       *)
(* simulation grids are integers (ticks); the configured dt is DT ticks.   *)
(* Spike times and spike voltages, which the code obtains by dividing,     *)
(* are exact fractions [n, d]; d = 0 encodes nan (n = 0) and +-inf         *)
(* (n = +-1), with the IEEE rules for the four operations.  Floating-point *)
(* rounding is not modelled.                                               *)
(***************************************************************************)
EXTENDS Integers, Sequences, FiniteSets, TLC

\* ---------------------------------------------------------------- bounds
MaxLen == 4
MaxCut == 1
MaxMult == 2
MaxSpikes == 2
DT == 2
MaxSamples == 3
MaxLevel == 2

\* np.nan, as the arrays are filled with it before use
NaN == -99999

\* ------------------------------------------------------------ arithmetic
Abs(x) == IF x < 0 THEN -x ELSE x

Sign(x) == IF x < 0 THEN -1 ELSE IF x > 0 THEN 1 ELSE 0

Max(a, b) == IF a >= b THEN a ELSE b

Min(a, b) == IF a <= b THEN a ELSE b

RECURSIVE Gcd(_, _)
Gcd(a, b) == IF b = 0 THEN a ELSE Gcd(b, a % b)

Lcm(a, b) == (a * b) \div Gcd(a, b)

RECURSIVE LcmUpTo(_)
LcmUpTo(k) == IF k <= 1 THEN 1 ELSE Lcm(k, LcmUpTo(k - 1))

CeilDiv(a, b) == -((-a) \div b)

\* Python indexing of a sequence: index i >= 0 from the front, i < 0 from
\* the back (seq[-1] is the last element).
At(seq, i) == IF i >= 0 THEN seq[i + 1] ELSE seq[Len(seq) + i + 1]

\* seq[a:b] for 0 <= a, b; an empty slice when a >= b.
Slice(seq, a, b) == IF Min(b, Len(seq)) <= a THEN << >> ELSE SubSeq(seq, a + 1, Min(b, Len(seq)))

\* float operations on the integer values, nan-propagating
IsFinite(x) == x # NaN

VAdd(a, b) == IF a = NaN \/ b = NaN THEN NaN ELSE a + b

VSub(a, b) == IF a = NaN \/ b = NaN THEN NaN ELSE a - b

\* a > b on floats: False when either side is nan
VGt(a, b) == a # NaN /\ b # NaN /\ a > b

\* ------------------------------------------------------------- fractions
FNaN == [n |-> 0, d |-> 0]

FInf(s) == [n |-> s, d |-> 0]

FNorm(n, d) ==
    IF d = 0 THEN [n |-> Sign(n), d |-> 0]
    ELSE LET g == Gcd(Abs(n), Abs(d))
             s == Sign(d)
         IN [n |-> (s * n) \div g, d |-> (s * d) \div g]

F(x) == IF x = NaN THEN FNaN ELSE [n |-> x, d |-> 1]

FIsNaN(a) == a.d = 0 /\ a.n = 0

FIsFinite(a) == a.d # 0

FAdd(a, b) ==
    IF FIsNaN(a) \/ FIsNaN(b) THEN FNaN
    ELSE IF a.d = 0 /\ b.d = 0 THEN (IF a.n = b.n THEN a ELSE FNaN)
    ELSE IF a.d = 0 THEN a
    ELSE IF b.d = 0 THEN b
    ELSE FNorm(a.n * b.d + b.n * a.d, a.d * b.d)

FNeg(a) == [n |-> -a.n, d |-> a.d]

FSub(a, b) == FAdd(a, FNeg(b))

FMul(a, b) ==
    IF FIsNaN(a) \/ FIsNaN(b) THEN FNaN
    ELSE FNorm(a.n * b.n, a.d * b.d)

\* a / b: x/0 is +-inf by the sign of x, 0/0 and inf/inf are nan
FDiv(a, b) ==
    IF FIsNaN(a) \/ FIsNaN(b) THEN FNaN
    ELSE IF a.d = 0 /\ b.d = 0 THEN FNaN
    ELSE IF b.d = 0 THEN [n |-> 0, d |-> 1]
    ELSE FNorm(a.n * b.d, a.d * b.n)

FLt(a, b) ==
    /\ ~FIsNaN(a)
    /\ ~FIsNaN(b)
    /\ IF a.d = 0 /\ b.d = 0 THEN a.n < b.n
       ELSE IF a.d = 0 THEN a.n < 0
       ELSE IF b.d = 0 THEN b.n > 0
       ELSE a.n * b.d < b.n * a.d

FLe(a, b) == ~FIsNaN(a) /\ ~FIsNaN(b) /\ ~FLt(b, a)

\* np.ceil
FCeil(a) == IF a.d = 0 THEN a ELSE [n |-> CeilDiv(a.n, a.d), d |-> 1]

\* np.floor
FFloor(a) == IF a.d = 0 THEN a ELSE [n |-> a.n \div a.d, d |-> 1]

\* ------------------------------------------------- glif_neuron geometry
\* Intersection of the line through (0, a0), (dx, a1) with the line through
\* (0, b0), (dx, b1): its time offset ...
line_crossing_x(dx, a0, a1, b0, b1) ==
    FDiv(FMul(F(dx), F(VSub(b0, a0))), F(VSub(VSub(a1, a0), VSub(b1, b0))))

\* ... and the common value there.
line_crossing_y(dx, a0, a1, b0, b1) ==
    FAdd(F(b0), FDiv(FMul(F(VSub(b1, b0)), F(VSub(b0, a0))),
                     F(VSub(VSub(a1, a0), VSub(b1, b0)))))

interpolate_spike_time(dt, time_step, threshold_t0, threshold_t1, voltage_t0, voltage_t1) ==
    FAdd(F(time_step * dt),
         line_crossing_x(dt, voltage_t0, voltage_t1, threshold_t0, threshold_t1))

\* ------------------------------------------- glif_optimizer_neuron geometry
interpolate_spike_voltage(dt, time_step, threshold_t0, threshold_t1, voltage_t0, voltage_t1) ==
    FAdd(F(time_step * dt),
         line_crossing_y(dt, voltage_t0, voltage_t1, threshold_t0, threshold_t1))

extrapolate_spike_time(dt, num_time_steps, threshold_t0, threshold_t1, voltage_t0, voltage_t1) ==
    line_crossing_x(dt * num_time_steps, voltage_t0, voltage_t1, threshold_t0, threshold_t1)

extrapolate_spike_voltage(dt, num_time_steps, threshold_t0, threshold_t1, voltage_t0, voltage_t1) ==
    line_crossing_y(dt * num_time_steps, voltage_t0, voltage_t1, threshold_t0, threshold_t1)

\* Python's None in a slot that otherwise holds a fraction
FNone == [n |-> 0, d |-> -1]

NoSpike(how) ==
    [kind |-> how,
     grid_model_spike_time |-> FNone,
     grid_model_spike_voltage |-> FNone,
     interpolated_model_spike_time |-> FNone,
     interpolated_model_spike_voltage |-> FNone]

\* A scan that also stops where the voltage equals its threshold.
RECURSIVE scan_first_at_or_above(_, _, _)
scan_first_at_or_above(voltage, threshold, from) ==
    IF from >= Len(voltage) THEN -1
    ELSE IF ~VGt(At(threshold, from), At(voltage, from))
            /\ IsFinite(At(voltage, from)) /\ IsFinite(At(threshold, from)) THEN from
    ELSE scan_first_at_or_above(voltage, threshold, from + 1)

\* The scan of find_first_model_spike: the first time_step >= from, in
\* increasing order, whose voltage is above its threshold; -1 when the loop
\* runs out.
RECURSIVE scan_first_above(_, _, _)
scan_first_above(voltage, threshold, from) ==
    IF from >= Len(voltage) THEN -1
    ELSE IF VGt(At(voltage, from), At(threshold, from)) THEN from
    ELSE scan_first_above(voltage, threshold, from + 1)

\* The loop's return with the interpolation started from the step of the
\* hit instead of the step before it.
spike_at_from_hit_step(voltage, threshold, time_step, dt) ==
    [kind |-> "interior",
     grid_model_spike_time |-> F(dt * (time_step - 1)),
     grid_model_spike_voltage |-> F(At(voltage, time_step - 1)),
     interpolated_model_spike_time |->
         interpolate_spike_time(dt, time_step,
             At(threshold, time_step - 1), At(threshold, time_step),
             At(voltage, time_step - 1), At(voltage, time_step)),
     interpolated_model_spike_voltage |->
         interpolate_spike_voltage(dt, time_step - 1,
             At(threshold, time_step - 1), At(threshold, time_step),
             At(voltage, time_step - 1), At(voltage, time_step))]

\* What the loop returns when voltage[time_step] > threshold[time_step]; at
\* time_step 0 the index time_step - 1 is the last sample.
spike_at(voltage, threshold, time_step, dt) ==
    [kind |-> "interior",
     grid_model_spike_time |-> F(dt * (time_step - 1)),
     grid_model_spike_voltage |-> F(At(voltage, time_step - 1)),
     interpolated_model_spike_time |->
         interpolate_spike_time(dt, time_step - 1,
             At(threshold, time_step - 1), At(threshold, time_step),
             At(voltage, time_step - 1), At(voltage, time_step)),
     interpolated_model_spike_voltage |->
         interpolate_spike_voltage(dt, time_step - 1,
             At(threshold, time_step - 1), At(threshold, time_step),
             At(voltage, time_step - 1), At(voltage, time_step))]

\* The return after the loop with times counted from the one-past-end step.
spike_at_boundary_from_end(voltage, threshold, voltage_t1, threshold_t1, dt) ==
    LET num_time_steps == Len(voltage)
    IN  [kind |-> "boundary",
         grid_model_spike_time |-> F(dt * num_time_steps),
         grid_model_spike_voltage |-> F(voltage_t1),
         interpolated_model_spike_time |->
             interpolate_spike_time(dt, num_time_steps,
                 At(threshold, num_time_steps - 1), threshold_t1,
                 At(voltage, num_time_steps - 1), voltage_t1),
         interpolated_model_spike_voltage |->
             interpolate_spike_voltage(dt, num_time_steps,
                 At(threshold, -1), threshold_t1,
                 At(voltage, -1), voltage_t1)]

\* What is returned after the loop when voltage_t1 > threshold_t1, for a
\* trajectory with a last sample.
spike_at_boundary(voltage, threshold, voltage_t1, threshold_t1, dt) ==
    LET num_time_steps == Len(voltage)
    IN  [kind |-> "boundary",
         grid_model_spike_time |-> F(dt * (num_time_steps - 1)),
         grid_model_spike_voltage |-> F(voltage_t1),
         interpolated_model_spike_time |->
             interpolate_spike_time(dt, num_time_steps - 1,
                 At(threshold, num_time_steps - 1), threshold_t1,
                 At(voltage, num_time_steps - 1), voltage_t1),
         interpolated_model_spike_voltage |->
             interpolate_spike_voltage(dt, num_time_steps,
                 At(threshold, -1), threshold_t1,
                 At(voltage, -1), voltage_t1)]

\* kind names the return statement taken: "interior" (the loop's), "boundary"
\* (the one-past-end pair), "none" (None, None, None, None), or the error
\* raised.
find_first_model_spike(voltage, threshold, voltage_t1, threshold_t1, dt) ==
    LET num_time_steps == Len(voltage)
        time_step == scan_first_above(voltage, threshold, 0)
    IN  IF time_step >= 0 THEN spike_at(voltage, threshold, time_step, dt)
        ELSE IF VGt(voltage_t1, threshold_t1) THEN
            IF num_time_steps = 0 THEN NoSpike("IndexError")
            ELSE spike_at_boundary(voltage, threshold, voltage_t1, threshold_t1, dt)
        ELSE NoSpike("none")

\* An extrapolation whose grid time is rounded down to the grid.
extrapolate_rounding_down(voltage, threshold, voltage_t1, threshold_t1, dt) ==
    LET num_time_steps == Len(voltage)
        interpolated_model_spike_time ==
            extrapolate_spike_time(dt, num_time_steps, At(threshold, 0),
                                   threshold_t1, At(voltage, 0), voltage_t1)
        interpolated_model_spike_voltage ==
            extrapolate_spike_voltage(dt, num_time_steps, At(threshold, 0),
                                      threshold_t1, At(voltage, 0), voltage_t1)
    IN  IF num_time_steps = 0 THEN NoSpike("IndexError")
        ELSE
        [kind |-> "extrapolated",
         grid_model_spike_time |->
             FMul(FFloor(FDiv(interpolated_model_spike_time, F(dt))), F(dt)),
         grid_model_spike_voltage |-> interpolated_model_spike_voltage,
         interpolated_model_spike_time |-> interpolated_model_spike_time,
         interpolated_model_spike_voltage |-> interpolated_model_spike_voltage]

extrapolate_model_spike_from_endpoints(voltage, threshold, voltage_t1, threshold_t1, dt) ==
    LET num_time_steps == Len(voltage)
        interpolated_model_spike_time ==
            extrapolate_spike_time(dt, num_time_steps, At(threshold, 0),
                                   threshold_t1, At(voltage, 0), voltage_t1)
        interpolated_model_spike_voltage ==
            extrapolate_spike_voltage(dt, num_time_steps, At(threshold, 0),
                                      threshold_t1, At(voltage, 0), voltage_t1)
    IN  IF num_time_steps = 0 THEN NoSpike("IndexError")
        ELSE
        [kind |-> "extrapolated",
         grid_model_spike_time |->
             FMul(FCeil(FDiv(interpolated_model_spike_time, F(dt))), F(dt)),
         grid_model_spike_voltage |-> interpolated_model_spike_voltage,
         interpolated_model_spike_time |-> interpolated_model_spike_time,
         interpolated_model_spike_voltage |-> interpolated_model_spike_voltage]

extrapolate_model_spike_from_endpoints_single_tau(tau_m, voltage, threshold, voltage_t1, threshold_t1, dt) ==
    LET num_time_steps == Len(voltage)
        ii == FFloor(FDiv(F(tau_m), F(dt)))
        starting_ind == IF ii.d = 0 THEN (IF ii.n > 0 THEN 0 ELSE num_time_steps)
                        ELSE Max(0, num_time_steps - ii.n)
    IN  extrapolate_model_spike_from_endpoints(
            Slice(voltage, starting_ind, num_time_steps),
            Slice(threshold, starting_ind, num_time_steps),
            voltage_t1, threshold_t1, dt)

\* What numpy does with the float starting_ind as a slice bound: releases
\* before 1.12 truncate it (with a DeprecationWarning), later ones raise
\* TypeError.  max(0, x) is the int 0 when x <= 0.
FloatIndexImpls == {"truncates", "TypeError"}

\* extrapolate_model_spike_from_endpoints_single_tau on a numpy of the given
\* kind; the operator above is the case "truncates".
single_tau_with_float_index(float_index, tau_m, voltage, threshold, voltage_t1, threshold_t1, dt) ==
    LET num_time_steps == Len(voltage)
        ii == FFloor(FDiv(F(tau_m), F(dt)))
        is_float == ii.d = 0 \/ num_time_steps - ii.n > 0
    IN  IF float_index = "TypeError" /\ is_float THEN NoSpike("TypeError")
        ELSE extrapolate_model_spike_from_endpoints_single_tau(
                 tau_m, voltage, threshold, voltage_t1, threshold_t1, dt)

\* ------------------------------------------------------------ numpy, scipy
\* np.arange(0, stop, step) for step > 0
arange_to(stop, step) ==
    [i \in 1..(IF stop <= 0 THEN 0 ELSE CeilDiv(stop, step)) |-> (i - 1) * step]

\* The line anchored at the wrong end: slope*(x_new - x_lo) + y_hi.
lerp_from_y_hi(x_lo, x_hi, y_lo, y_hi, x_new) ==
    IF y_lo = NaN \/ y_hi = NaN \/ x_hi = x_lo THEN NaN
    ELSE y_hi + ((y_hi - y_lo) * (x_new - x_lo)) \div (x_hi - x_lo)

\* slope*(x_new - x_lo) + y_lo on floats: nan when an end value is nan or
\* the segment has no width (the slope is then inf or nan, times zero)
lerp(x_lo, x_hi, y_lo, y_hi, x_new) ==
    IF y_lo = NaN \/ y_hi = NaN \/ x_hi = x_lo THEN NaN
    ELSE y_lo + ((y_hi - y_lo) * (x_new - x_lo)) \div (x_hi - x_lo)

\* interp1d._call_linear: searchsorted (side left), clipped to 1..len-1
call_linear(x, y, x_new) ==
    LET below == Cardinality({j \in 1..Len(x) : x[j] < x_new})
        hi == Min(Max(below, 1), Len(x) - 1)
    IN  lerp(At(x, hi - 1), At(x, hi), At(y, hi - 1), At(y, hi), x_new)

\* interp1d._call_linear_np (numpy.interp): the segment starts at the last
\* node <= x_new; at or beyond the last node the last value
call_linear_np(x, y, x_new) ==
    LET upto == Cardinality({j \in 1..Len(x) : x[j] <= x_new})
    IN  IF upto = 0 THEN At(y, 0)
        ELSE IF x_new >= At(x, -1) THEN At(y, -1)
        ELSE lerp(At(x, upto - 1), At(x, upto), At(y, upto - 1), At(y, upto), x_new)

\* spi.interp1d(x, y, assume_sorted=True, bounds_error=False,
\* fill_value=fill)(x_new), kind linear, for one point x_new.  impl is the
\* evaluation routine the installed scipy uses; the two differ where x
\* repeats a node and where y holds a nan.
interp1d(impl, x, y, fill, x_new) ==
    IF x_new < At(x, 0) \/ x_new > At(x, -1) THEN fill
    ELSE IF impl = "numpy" THEN call_linear_np(x, y, x_new)
    ELSE call_linear(x, y, x_new)

interp_all(impl, x, y, fill, xs) ==
    [i \in 1..Len(xs) |-> interp1d(impl, x, y, fill, xs[i])]

\* ndarray.mean() of a non-empty slice
RECURSIVE SumSeq(_)
SumSeq(seq) == IF seq = << >> THEN 0 ELSE VAdd(Head(seq), SumSeq(Tail(seq)))

mean(seq) == IF SumSeq(seq) = NaN THEN NaN ELSE SumSeq(seq) \div Len(seq)

\* ------------------------------------------- the external neuron operations
\* The stimulus takes the values 0, StimAmp and nan; StimAmp is a multiple
\* of every bin width, so that bin means and interpolated samples are whole.
StimAmp == LcmUpTo(MaxMult + 1)

AscAmp == StimAmp

State(v, th, asc) == [voltage |-> v, threshold |-> th, AScurrents |-> asc]

\* None, as the members of the (None, None, None) next state
PyNone == -88888

NoneState == State(PyNone, PyNone, PyNone)

VMul(a, b) == IF a = NaN \/ b = NaN THEN NaN ELSE a * b

\* GlifNeuron.dynamics(voltage_t0, threshold_t0, AScurrents_t0, inj,
\* time_step, spike_time_steps), which reads the step size from self.dt: one
\* forward-Euler step of a leak-free membrane with constant threshold and
\* constant after-spike current.  A non-finite current sample makes the
\* voltage non-finite.
dynamics(st, inj, dt) ==
    State(VAdd(st.voltage, VMul(dt, VAdd(inj, st.AScurrents))),
          st.threshold,
          st.AScurrents)

\* GlifNeuron.reset(voltage_t1, threshold_t1, AScurrents_t1), less its flag
reset(voltage_t1, threshold_t1, AScurrents_t1) ==
    State(VSub(voltage_t1, threshold_t1), threshold_t1, VSub(AScurrents_t1, AscAmp))

isbad(st) == ~IsFinite(st.voltage) \/ ~IsFinite(st.threshold) \/ ~IsFinite(st.AScurrents)

\* ------------------------------------------------------------------ state
VARIABLES
    cfg,        \* the constructor's keyword arguments and the call's arguments
    self,       \* the fields of the neuron object this class sets
    pc,         \* where control is
    drv,        \* locals of run_with_biological_spikes
    ri,         \* locals of run_until_biological_spike
    run_data,   \* what run_until_biological_spike handed back
    outcome,    \* how the call of run_with_biological_spikes ended
    hist,       \* the calls made so far, in order (observation only)
    calls,      \* calls of run_with_biological_spikes begun on this object
    first,      \* the outcome of the first call, once a second has begun
    fin,        \* arguments of a geometry function under test
    fout        \* its result

vars == <<cfg, self, pc, drv, ri, run_data, outcome, hist, calls, first, fin, fout>>

\* ----------------------------------------------------------------- inputs
RECURSIVE SortedSeq(_)
SortedSeq(S) ==
    IF S = {} THEN << >>
    ELSE LET lo == CHOOSE x \in S : \A y \in S : x <= y
         IN <<lo>> \o SortedSeq(S \ {lo})

\* strictly increasing spike indices inside a stimulus of length len
SpikeLists(len) ==
    {SortedSeq(S) : S \in {T \in SUBSET (0..(len - 1)) : Cardinality(T) <= MaxSpikes}}

\* a current step, 0 before index on and StimAmp from it; and the step from
\* index 0 with one non-finite sample, at index bad
Stimuli(len) ==
    {[i \in 1..len |-> IF i > on THEN StimAmp ELSE 0] : on \in {0, 1, len}}
        \cup {[i \in 1..len |-> IF i = bad + 1 THEN NaN ELSE StimAmp] : bad \in 0..(len - 1)}

InitThreshold == 2 * DT * StimAmp

InitVoltages == {0, InitThreshold + StimAmp, NaN}

TauM == 2 * DT

MethodNames == {"endpoints", "endpoints_single_tau"}

NamesGiven == MethodNames \cup {"omitted", "no_such_method"}

ResetMethods == {"adapt_sum_slow_fast", "inf"}

InterpImpls == {"scipy", "numpy"}

Config(stim, spikes, cut, mult, v0, name, rm, impl) ==
    [stimulus |-> stim, bio_spike_time_steps |-> spikes, spike_cut_length |-> cut,
     dt_multiplier |-> mult, dt |-> DT, init_voltage |-> v0,
     init_threshold |-> InitThreshold, init_AScurrents |-> 0,
     tau_m |-> TauM, name_given |-> name, threshold_reset_method |-> rm,
     interp_impl |-> impl]

\* ---------------------------------------------------------- initial state
NoSelf == [dt |-> 0, extrapolation_method_name |-> "unset", dt_multiplier |-> 0]

Summary0 ==
    [grid_ISI |-> << >>, interpolated_ISI |-> << >>,
     grid_model_spike_times |-> << >>, interpolated_model_spike_times |-> << >>,
     grid_model_spike_voltages |-> << >>, interpolated_model_spike_voltages |-> << >>,
     grid_bio_spike_model_voltage |-> << >>, grid_bio_spike_model_threshold |-> << >>]

\* bound tells whether the output arrays have been assigned at all
Drv0 ==
    [start_index |-> 0, end_index |-> 0, spike_num |-> 0, which |-> "none",
     state_t0 |-> NoneState, bound |-> FALSE,
     voltage |-> << >>, threshold |-> << >>, AScurrent_matrix |-> << >>,
     summary |-> Summary0]

Ri0 == [active |-> FALSE]

NoData == [none |-> TRUE]

NoOutcome == [status |-> "running", error |-> "", line |-> 0, data |-> NoData]

Hist0 == [runs |-> << >>, lens |-> << >>, dyn |-> << >>, resets |-> << >>,
          writes |-> << >>]

InitWith(c) ==
    /\ cfg = c
    /\ self = NoSelf
    /\ pc = "new"
    /\ drv = Drv0
    /\ ri = Ri0
    /\ run_data = NoData
    /\ outcome = NoOutcome
    /\ hist = Hist0
    /\ calls = 0
    /\ first = NoOutcome
    /\ fin = NoData
    /\ fout = NoData

Init ==
    \E len \in 1..MaxLen, cut \in 0..MaxCut, mult \in 1..MaxMult, v0 \in InitVoltages,
       name \in NamesGiven, rm \in ResetMethods, impl \in InterpImpls :
        \E stim \in Stimuli(len), spikes \in SpikeLists(len) :
            InitWith(Config(stim, spikes, cut, mult, v0, name, rm, impl))

Len_stimulus == Len(cfg.stimulus)

\* ------------------------------------------------------------ construction
kwargs_get_name(given) == IF given = "omitted" THEN "endpoints" ELSE given

\* A selection that falls back to the default for a name it does not know.
select_or_default(name) ==
    IF name = "endpoints_single_tau" THEN "extrapolate_model_spike_from_endpoints_single_tau"
    ELSE "extrapolate_model_spike_from_endpoints"

\* the if / elif / else of __init__: the function bound, or "raise"
select_extrapolation_method(name) ==
    IF name = "endpoints" THEN "extrapolate_model_spike_from_endpoints"
    ELSE IF name = "endpoints_single_tau" THEN "extrapolate_model_spike_from_endpoints_single_tau"
    ELSE "raise"

\* an exception that left the call: its class, the source line that raised
\* it, and its data
Raised(kind, line, data) ==
    [status |-> "raised", error |-> kind, line |-> line, data |-> data]

\* GlifOptimizerNeuron(**kwargs)
Construct ==
    /\ pc = "new"
    /\ LET name == kwargs_get_name(cfg.name_given)
       IN  IF select_extrapolation_method(name) = "raise"
           THEN /\ pc' = "construct_failed"
                /\ outcome' = Raised("Exception", 40, NoData)
                /\ self' = [self EXCEPT !.dt = cfg.dt, !.extrapolation_method_name = name]
           ELSE /\ pc' = "idle"
                /\ outcome' = outcome
                /\ self' = [dt |-> cfg.dt, extrapolation_method_name |-> name,
                            dt_multiplier |-> cfg.dt_multiplier]
    /\ UNCHANGED <<cfg, drv, ri, run_data, hist, calls, first, fin, fout>>

\* ----------------------------------- run_until_biological_spike: entering
nan_array(n) == [i \in 1..n |-> NaN]

\* Boundaries at every fine step, whatever the refinement factor.
coarse_indicies_every_step(n, m) ==
    [j \in 1..(IF n <= 0 THEN 0 ELSE n) |-> j - 1] \o <<n>>

\* np.append(np.arange(n)[::m], n)
coarse_indicies(n, m) ==
    [j \in 1..(IF n <= 0 THEN 0 ELSE CeilDiv(n, m)) |-> (j - 1) * m] \o <<n>>

\* The locals as they stand when the loop is reached; dt_old is self.dt on
\* entry, and the coarse times are laid out with self.dt = dt_old * m.
\* Needs end_index > start_index: t_fine_grid[-1] is read.
run_until_prologue(st0, stimulus, start_index, end_index, bio, dt_old, m) ==
    LET num_time_steps_fine == end_index - start_index
        t_fine_grid == [i \in 1..num_time_steps_fine |-> (i - 1) * dt_old]
        local == coarse_indicies(num_time_steps_fine, m)
        num_time_steps_coarse == Len(local)
        t_coarse_grid ==
            [j \in 1..(num_time_steps_coarse - 1) |-> (j - 1) * (dt_old * m)]
                \o <<At(t_fine_grid, -1)>>
    IN  [active |-> TRUE,
         start_index |-> start_index,
         end_index |-> end_index,
         bio_spike_time_steps |-> bio,
         num_time_steps_fine |-> num_time_steps_fine,
         dt_old |-> dt_old,
         t_fine_grid |-> t_fine_grid,
         local_coarse_indicies |-> local,
         t_coarse_grid |-> t_coarse_grid,
         dt_vector |-> [j \in 1..(num_time_steps_coarse - 1) |->
                           t_coarse_grid[j + 1] - t_coarse_grid[j]],
         stimulus_coarse |-> [j \in 1..(num_time_steps_coarse - 1) |->
                                 mean(Slice(stimulus, start_index + local[j],
                                            start_index + local[j + 1]))],
         voltage_out_coarse_grid |-> nan_array(num_time_steps_coarse),
         threshold_out_coarse_grid |-> nan_array(num_time_steps_coarse),
         AScurrent_matrix_coarse_grid |-> nan_array(num_time_steps_coarse),
         time_step |-> 0,
         t0 |-> st0,
         t1 |-> NoneState]

\* self.run_until_biological_spike(st0, stimulus, response, start, end, bio),
\* up to the loop: the refinement factor is applied to self.dt before
\* anything can fail; an empty or negative range fails at t_fine_grid[-1].
call_run_until(st0, start_index, end_index, bio) ==
    /\ hist' = [hist EXCEPT !.runs = Append(@,
                   [start_index |-> start_index, end_index |-> end_index,
                    bio_spike_time_steps |-> bio, state |-> st0])]
    /\ self' = [self EXCEPT !.dt = self.dt * self.dt_multiplier]
    /\ IF end_index - start_index <= 0
       THEN /\ pc' = "raised"
            /\ outcome' = Raised("IndexError", 523, NoData)
            /\ ri' = ri
       ELSE /\ pc' = "ri_loop"
            /\ outcome' = outcome
            /\ ri' = run_until_prologue(st0, cfg.stimulus, start_index, end_index,
                                        bio, self.dt, self.dt_multiplier)

\* ------------------------------------- run_with_biological_spikes: entering
\* the exception that the guard on the initial state ends with: the message
\* has two conversions and is formatted with four values
bad_initialization_error == "TypeError"

run_with_biological_spikes ==
    /\ pc = "idle"
    /\ calls' = calls + 1
    /\ UNCHANGED <<cfg, run_data, first, fin, fout>>
    /\ LET st0 == State(cfg.init_voltage, cfg.init_threshold, cfg.init_AScurrents)
           num_spikes == Len(cfg.bio_spike_time_steps)
       IN  IF VGt(st0.voltage, st0.threshold)
           THEN /\ pc' = "raised"
                /\ outcome' = Raised(bad_initialization_error, 121, NoData)
                /\ drv' = Drv0
                /\ UNCHANGED <<self, ri, hist>>
           ELSE IF num_spikes = 0
           THEN /\ drv' = [Drv0 EXCEPT !.start_index = 0, !.end_index = Len_stimulus,
                                       !.which = "zero", !.state_t0 = st0]
                /\ call_run_until(st0, 0, Len_stimulus, << >>)
           ELSE /\ drv' = [Drv0 EXCEPT !.start_index = 0, !.which = "spike",
                                       !.state_t0 = st0, !.bound = TRUE,
                                       !.voltage = nan_array(Len_stimulus),
                                       !.threshold = nan_array(Len_stimulus),
                                       !.AScurrent_matrix = nan_array(Len_stimulus)]
                /\ pc' = "for_spike"
                /\ outcome' = NoOutcome
                /\ UNCHANGED <<self, ri, hist>>

\* An assertion that lets an empty interval through.
assert_start_not_after_end(start_index, end_index) == start_index <= end_index

\* assert start_index < end_index, Exception(...)
assert_start_before_end(start_index, end_index) == start_index < end_index

\* the head of the loop over the spikes, and the call for the trailing tail
for_spike ==
    /\ pc = "for_spike"
    /\ UNCHANGED <<cfg, run_data, calls, first, fin, fout>>
    /\ IF drv.spike_num < Len(cfg.bio_spike_time_steps)
       THEN LET end_index == cfg.bio_spike_time_steps[drv.spike_num + 1]
            IN  /\ drv' = [drv EXCEPT !.end_index = end_index]
                /\ IF assert_start_before_end(drv.start_index, end_index)
                   THEN call_run_until(drv.state_t0, drv.start_index, end_index,
                                       cfg.bio_spike_time_steps)
                   ELSE /\ pc' = "raised"
                        /\ outcome' = Raised("AssertionError", 195, NoData)
                        /\ UNCHANGED <<self, ri, hist>>
       ELSE /\ drv' = [drv EXCEPT !.which = "tail"]
            /\ call_run_until(drv.state_t0, drv.start_index, Len_stimulus,
                              cfg.bio_spike_time_steps)

\* ------------------------------------- run_until_biological_spike: the loop
SetAt(seq, i, x) == [seq EXCEPT ![i + 1] = x]

\* The data of the GlifNeuronException raised at coarse step time_step >= 2:
\* the coarse samples before it, interpolated onto the fine points before
\* t_coarse_grid[time_step - 1], the rest nan.
error_data(impl, r, time_step) ==
    LET temp_fine_grid_for_intp == arange_to(At(r.t_coarse_grid, time_step - 1), r.dt_old)
        part(coarse) ==
            interp_all(impl, Slice(r.t_coarse_grid, 0, time_step),
                       Slice(coarse, 0, time_step), At(coarse, -1),
                       temp_fine_grid_for_intp)
        fine(coarse) ==
            [i \in 1..r.num_time_steps_fine |->
                IF i <= Len(temp_fine_grid_for_intp) THEN part(coarse)[i] ELSE NaN]
    IN  [voltage |-> fine(r.voltage_out_coarse_grid),
         threshold |-> fine(r.threshold_out_coarse_grid),
         AScurrent_matrix |-> fine(r.AScurrent_matrix_coarse_grid)]

\* one pass of the loop body: record, check, step
run_until_step ==
    /\ pc = "ri_loop"
    /\ UNCHANGED <<cfg, drv, calls, first, fin, fout>>
    /\ LET time_step == ri.time_step
           recorded ==
               [ri EXCEPT
                   !.voltage_out_coarse_grid = SetAt(@, time_step, ri.t0.voltage),
                   !.threshold_out_coarse_grid = SetAt(@, time_step, ri.t0.threshold),
                   !.AScurrent_matrix_coarse_grid = SetAt(@, time_step, ri.t0.AScurrents)]
       IN  IF isbad(ri.t0)
           THEN /\ UNCHANGED <<self, hist>>
                /\ ri' = recorded
                /\ IF time_step < 2
                   \* interp1d refuses fewer than two points
                   THEN /\ pc' = "raised"
                        /\ outcome' = Raised("ValueError", 561, NoData)
                        /\ run_data' = run_data
                   ELSE /\ pc' = "except"
                        /\ outcome' = outcome
                        /\ run_data' = error_data(cfg.interp_impl, recorded, time_step)
           ELSE LET dt == At(ri.dt_vector, time_step)
                    t1 == dynamics(ri.t0, At(ri.stimulus_coarse, time_step), dt)
                IN  /\ self' = [self EXCEPT !.dt = dt]
                    /\ hist' = [hist EXCEPT !.dyn = Append(@,
                                   [run |-> Len(hist.runs),
                                    time_step |-> time_step + ri.start_index,
                                    dt |-> dt,
                                    bin |-> <<At(ri.local_coarse_indicies, time_step),
                                              At(ri.local_coarse_indicies, time_step + 1)>>,
                                    state |-> ri.t0,
                                    bio_spike_time_steps |-> ri.bio_spike_time_steps])]
                    /\ ri' = [recorded EXCEPT !.t0 = t1, !.t1 = t1,
                                              !.time_step = time_step + 1]
                    /\ pc' = IF time_step + 1 = Len(ri.local_coarse_indicies) - 1
                             THEN "ri_after" ELSE "ri_loop"
                    /\ UNCHANGED <<outcome, run_data>>

\* ------------------------------ run_until_biological_spike: after the loop
\* self.extrapolation_method(self, ...), on a numpy that truncates a float
\* slice bound
extrapolation_method(name, tau_m, voltage, threshold, voltage_t1, threshold_t1, dt) ==
    IF name = "endpoints_single_tau"
    THEN extrapolate_model_spike_from_endpoints_single_tau(
             tau_m, voltage, threshold, voltage_t1, threshold_t1, dt)
    ELSE extrapolate_model_spike_from_endpoints(
             voltage, threshold, voltage_t1, threshold_t1, dt)

\* The terminal voltage handed to reset under every reset method.
reset_voltage_as_simulated(method, voltage_t1, threshold_t1) == voltage_t1

\* the voltage handed to reset
reset_voltage(method, voltage_t1, threshold_t1) ==
    IF method = "adapt_sum_slow_fast" THEN threshold_t1 ELSE voltage_t1

\* From the write of the last coarse slot to the return.  time_step is the
\* loop's last index, so the slot written is the last one.
run_until_finish ==
    /\ pc = "ri_after"
    /\ UNCHANGED <<cfg, drv, calls, first, fin, fout>>
    /\ LET last == ri.time_step - 1
           voltage_coarse == SetAt(ri.voltage_out_coarse_grid, last + 1, ri.t0.voltage)
           threshold_coarse == SetAt(ri.threshold_out_coarse_grid, last + 1, ri.t0.threshold)
           AScurrent_coarse == SetAt(ri.AScurrent_matrix_coarse_grid, last + 1, ri.t0.AScurrents)
           dt == ri.dt_old
           onto_fine(coarse) ==
               interp_all(cfg.interp_impl, ri.t_coarse_grid, coarse, At(coarse, -1),
                          ri.t_fine_grid)
           voltage_out == onto_fine(voltage_coarse)
           threshold_out == onto_fine(threshold_coarse)
           AScurrent_matrix == onto_fine(AScurrent_coarse)
           found == find_first_model_spike(voltage_out, threshold_out,
                                           ri.t1.voltage, ri.t1.threshold, dt)
           spike == IF found.kind = "none"
                    THEN extrapolation_method(self.extrapolation_method_name, cfg.tau_m,
                             voltage_out, threshold_out, ri.t1.voltage, ri.t1.threshold, dt)
                    ELSE found
           num_spikes == Len(ri.bio_spike_time_steps)
           resets == num_spikes > 0 /\ ri.end_index < Len_stimulus
           voltage_t1 == IF resets
                         THEN reset_voltage(cfg.threshold_reset_method,
                                            ri.t1.voltage, ri.t1.threshold)
                         ELSE ri.t1.voltage
           next == IF resets THEN reset(voltage_t1, ri.t1.threshold, ri.t1.AScurrents)
                   ELSE IF num_spikes > 0 THEN NoneState
                   ELSE ri.t0
       IN  /\ self' = [self EXCEPT !.dt = dt]
           /\ ri' = [ri EXCEPT !.voltage_out_coarse_grid = voltage_coarse,
                               !.threshold_out_coarse_grid = threshold_coarse,
                               !.AScurrent_matrix_coarse_grid = AScurrent_coarse]
           /\ IF spike.kind = "IndexError"
              THEN /\ pc' = "raised"
                   /\ outcome' = Raised("IndexError", 726, NoData)
                   /\ UNCHANGED <<run_data, hist>>
              ELSE /\ pc' = "resume"
                   /\ outcome' = outcome
                   /\ hist' = [hist EXCEPT
                          !.lens = Append(@, Len(voltage_out)),
                          !.resets = IF resets
                                     THEN Append(@, [run |-> Len(hist.runs),
                                                     after_dyn |-> Len(hist.dyn),
                                                     voltage |-> voltage_t1,
                                                     threshold |-> ri.t1.threshold,
                                                     AScurrents |-> ri.t1.AScurrents,
                                                     returned |-> next])
                                     ELSE @]
                   /\ run_data' =
                          [voltage |-> voltage_out,
                           threshold |-> threshold_out,
                           AScurrent_matrix |-> AScurrent_matrix,
                           grid_model_spike_time |-> spike.grid_model_spike_time,
                           interpolated_model_spike_time |-> spike.interpolated_model_spike_time,
                           grid_model_spike_voltage |-> spike.grid_model_spike_voltage,
                           interpolated_model_spike_voltage |-> spike.interpolated_model_spike_voltage,
                           state_t0 |-> next,
                           grid_bio_spike_model_voltage |-> voltage_t1,
                           grid_bio_spike_model_threshold |-> ri.t1.threshold,
                           spike_kind |-> spike.kind]

\* ------------------------------- run_with_biological_spikes: an interval's
\* result
\* arr[a:b] = vals on a numpy array: the lengths must agree, except that a
\* single value is broadcast (also into an empty slice)
can_assign(arr, a, b, vals) == Len(vals) = Len(Slice(arr, a, b)) \/ Len(vals) = 1

assign(arr, a, b, vals) ==
    [i \in 1..Len(arr) |->
        IF a < i /\ i <= Min(b, Len(arr))
        THEN (IF Len(vals) = 1 THEN vals[1] ELSE vals[i - a])
        ELSE arr[i]]

Result(d) ==
    [voltage |-> d.voltage, threshold |-> d.threshold,
     AScurrent_matrix |-> d.AScurrent_matrix, summary |-> d.summary]

Returned(data) == [status |-> "returned", error |-> "", line |-> 296, data |-> data]

\* the check on the number of recorded spikes, then the return
check_and_return(d) ==
    IF \E name \in {"interpolated_model_spike_times", "grid_model_spike_times",
                    "grid_ISI", "interpolated_ISI", "grid_bio_spike_model_voltage",
                    "grid_bio_spike_model_threshold"} :
           Len(d.summary[name]) # Len(cfg.bio_spike_time_steps)
    THEN /\ pc' = "raised"
         /\ outcome' = Raised("Exception", 267, NoData)
    ELSE /\ pc' = "returned"
         /\ outcome' = Returned(Result(d))

record_spike(summary, rd, start_index, dt) ==
    [grid_ISI |-> Append(summary.grid_ISI, rd.grid_model_spike_time),
     interpolated_ISI |-> Append(summary.interpolated_ISI, rd.interpolated_model_spike_time),
     grid_model_spike_times |->
         Append(summary.grid_model_spike_times,
                FAdd(rd.grid_model_spike_time, F(start_index * dt))),
     interpolated_model_spike_times |->
         Append(summary.interpolated_model_spike_times,
                FAdd(rd.interpolated_model_spike_time, F(start_index * dt))),
     grid_model_spike_voltages |->
         Append(summary.grid_model_spike_voltages, rd.grid_model_spike_voltage),
     interpolated_model_spike_voltages |->
         Append(summary.interpolated_model_spike_voltages, rd.interpolated_model_spike_voltage),
     grid_bio_spike_model_voltage |->
         Append(summary.grid_bio_spike_model_voltage, rd.grid_bio_spike_model_voltage),
     grid_bio_spike_model_threshold |->
         Append(summary.grid_bio_spike_model_threshold, rd.grid_bio_spike_model_threshold)]

\* The next interval started at the spike, whatever the cut.
next_start_index_at_spike(end_index, spike_cut_length) == end_index

\* The next interval started on the last blanked sample.
next_start_index_in_cut(end_index, spike_cut_length) ==
    end_index + spike_cut_length - 1

\* The next interval started one sample late.
next_start_index_one_late(end_index, spike_cut_length) ==
    end_index + spike_cut_length + 1

\* where the next interval starts: past the spike, and past the cut
next_start_index(end_index, spike_cut_length) ==
    IF spike_cut_length > 0 THEN end_index + spike_cut_length ELSE end_index

\* The branch without target spikes keeping the spike the model produced.
without_spikes_recording(d, rd) ==
    [d EXCEPT !.bound = TRUE,
              !.voltage = rd.voltage,
              !.threshold = rd.threshold,
              !.AScurrent_matrix = rd.AScurrent_matrix,
              !.summary = record_spike(Summary0, rd, d.start_index, cfg.dt)]

\* the outputs of the branch without target spikes: the trajectories of the
\* one call, and no spike recorded
without_spikes(d, rd) ==
    [d EXCEPT !.bound = TRUE,
              !.voltage = rd.voltage,
              !.threshold = rd.threshold,
              !.AScurrent_matrix = rd.AScurrent_matrix,
              !.summary = Summary0]

\* the slice [lo, hi) of the full-length arrays that an assignment
\* voltage[lo:hi] = ..., threshold[lo:hi] = ..., AScurrent_matrix[lo:hi,:] = ...
\* writes, as noted in hist.writes
slice_written(lo, hi) == [lo |-> lo, hi |-> Min(hi, Len_stimulus)]

\* The next interval carried on from the last recorded sample.
next_initial_state_last_sample(rd) ==
    State(At(rd.voltage, -1), At(rd.threshold, -1), At(rd.AScurrent_matrix, -1))

\* voltage_t0, threshold_t0, AScurrents_t0 for the next call
next_initial_state(rd) == rd.state_t0

\* what the driver does with the result of the call it made
resume ==
    /\ pc = "resume"
    /\ UNCHANGED <<cfg, self, ri, run_data, calls, first, fin, fout>>
    /\ hist' = [hist EXCEPT !.writes =
                   IF drv.which = "zero" THEN @
                   ELSE Append(@, slice_written(drv.start_index,
                                   IF drv.which = "spike" THEN drv.end_index
                                   ELSE Len_stimulus))]
    /\ IF drv.which = "zero"
       THEN LET d == without_spikes(drv, run_data)
            IN  drv' = d /\ check_and_return(d)
       ELSE IF drv.which = "spike"
       THEN /\ drv' = [drv EXCEPT
                  !.voltage = assign(@, drv.start_index, drv.end_index, run_data.voltage),
                  !.threshold = assign(@, drv.start_index, drv.end_index, run_data.threshold),
                  !.AScurrent_matrix = assign(@, drv.start_index, drv.end_index,
                                              run_data.AScurrent_matrix),
                  !.summary = record_spike(@, run_data, drv.start_index, self.dt),
                  !.state_t0 = next_initial_state(run_data),
                  !.spike_num = @ + 1,
                  !.start_index = next_start_index(drv.end_index, cfg.spike_cut_length)]
            /\ pc' = "for_spike"
            /\ outcome' = outcome
       ELSE LET d == [drv EXCEPT
                         !.voltage = assign(@, drv.start_index, Len_stimulus, run_data.voltage),
                         !.threshold = assign(@, drv.start_index, Len_stimulus, run_data.threshold),
                         !.AScurrent_matrix = assign(@, drv.start_index, Len_stimulus,
                                                     run_data.AScurrent_matrix)]
            IN  drv' = d /\ check_and_return(d)

\* ------------------------------ run_with_biological_spikes: the except clause
\* run_data holds the data of the GlifNeuronException caught
except ==
    /\ pc = "except"
    /\ UNCHANGED <<cfg, self, ri, run_data, calls, first, fin, fout>>
    /\ pc' = "raised"
    /\ IF ~drv.bound
       THEN /\ outcome' = Raised("UnboundLocalError", 272, NoData)
            /\ drv' = drv
            /\ hist' = hist
       ELSE IF ~can_assign(drv.voltage, drv.start_index, drv.end_index, run_data.voltage)
       THEN /\ outcome' = Raised("ValueError", 272, NoData)
            /\ drv' = drv
            /\ hist' = hist
       ELSE LET d == [drv EXCEPT
                         !.voltage = assign(@, drv.start_index, drv.end_index, run_data.voltage),
                         !.threshold = assign(@, drv.start_index, drv.end_index, run_data.threshold),
                         !.AScurrent_matrix = assign(@, drv.start_index, drv.end_index,
                                                     run_data.AScurrent_matrix)]
            IN  /\ drv' = d
                /\ hist' = [hist EXCEPT !.writes =
                               Append(@, slice_written(drv.start_index, drv.end_index))]
                /\ outcome' = Raised("GlifNeuronException", 294, Result(d))

\* ------------------------------------------------------------ specification
Next ==
    \/ Construct
    \/ run_with_biological_spikes
    \/ for_spike
    \/ run_until_step
    \/ run_until_finish
    \/ resume
    \/ except

Spec == Init /\ [][Next]_vars

\* -------------------------------------------- a second call on the object
\* The caller invokes run_with_biological_spikes again, with the same
\* arguments, on the object the first call left behind: the locals are new,
\* the object's fields are as they were left.
call_again ==
    /\ pc \in {"returned", "raised"}
    /\ calls = 1
    /\ first' = outcome
    /\ pc' = "idle"
    /\ outcome' = NoOutcome
    /\ drv' = Drv0
    /\ ri' = Ri0
    /\ run_data' = NoData
    /\ hist' = Hist0
    /\ UNCHANGED <<cfg, self, calls, fin, fout>>

\* stimuli long enough for an interval of three coarse bins at every
\* refinement factor, with at most one target spike, default strategy
RepeatLen == MaxLen + 2

InitRepeat ==
    \E len \in 1..RepeatLen, cut \in 0..MaxCut, mult \in 1..MaxMult :
        \E stim \in Stimuli(len), spikes \in {sp \in SpikeLists(len) : Len(sp) <= 1} :
            InitWith(Config(stim, spikes, cut, mult, 0, "omitted", "inf", "scipy"))

NextRepeat ==
    \/ Construct
    \/ run_with_biological_spikes
    \/ for_spike
    \/ run_until_step
    \/ run_until_finish
    \/ resume
    \/ except
    \/ call_again

SpecRepeat == InitRepeat /\ [][NextRepeat]_vars

\* ---------------------------------------- find_first_model_spike by itself
Levels == (0..MaxLevel) \cup {NaN}

ThresholdLevels == {1, MaxLevel}

InitFind ==
    \E n \in 0..MaxSamples :
        \E voltage \in [1..n -> Levels], threshold \in [1..n -> ThresholdLevels],
           voltage_t1 \in Levels, threshold_t1 \in ThresholdLevels :
            /\ fin = [voltage |-> voltage, threshold |-> threshold,
                      voltage_t1 |-> voltage_t1, threshold_t1 |-> threshold_t1,
                      dt |-> DT]
            /\ fout = NoData
            /\ pc = "fn_ready"
            /\ cfg = NoData
            /\ self = NoSelf
            /\ drv = Drv0
            /\ ri = Ri0
            /\ run_data = NoData
            /\ outcome = NoOutcome
            /\ hist = Hist0
            /\ calls = 0
            /\ first = NoOutcome

call_find_first_model_spike ==
    /\ pc = "fn_ready"
    /\ fout' = find_first_model_spike(fin.voltage, fin.threshold, fin.voltage_t1,
                                      fin.threshold_t1, fin.dt)
    /\ pc' = "fn_done"
    /\ UNCHANGED <<cfg, self, drv, ri, run_data, outcome, hist, calls, first, fin>>

call_extrapolate_model_spike_from_endpoints ==
    /\ pc = "fn_ready"
    /\ fout' = extrapolate_model_spike_from_endpoints(
                    fin.voltage, fin.threshold, fin.voltage_t1, fin.threshold_t1, fin.dt)
    /\ pc' = "endpoints_done"
    /\ UNCHANGED <<cfg, self, drv, ri, run_data, outcome, hist, calls, first, fin>>

\* neuron.tau_m below dt, between dt and 2 dt, and beyond the longest window
TauMs == {1, DT + 1, MaxSamples * DT + 1}

call_extrapolate_model_spike_from_endpoints_single_tau ==
    /\ pc = "fn_ready"
    /\ \E tau_m \in TauMs, float_index \in FloatIndexImpls :
           fout' = [tau_m |-> tau_m, float_index |-> float_index,
                    result |-> single_tau_with_float_index(
                                   float_index, tau_m, fin.voltage, fin.threshold,
                                   fin.voltage_t1, fin.threshold_t1, fin.dt)]
    /\ pc' = "single_tau_done"
    /\ UNCHANGED <<cfg, self, drv, ri, run_data, outcome, hist, calls, first, fin>>

NextFind ==
    \/ call_find_first_model_spike
    \/ call_extrapolate_model_spike_from_endpoints
    \/ call_extrapolate_model_spike_from_endpoints_single_tau

SpecFind == InitFind /\ [][NextFind]_vars

\* ================================================================== claims
num_spikes == Len(cfg.bio_spike_time_steps)

\* a == b on floats: False when either side is nan
VEq(a, b) == a # NaN /\ b # NaN /\ a = b

\* ------------------------------------------------------------------- C1
\* C1, as stated: when run_with_biological_spikes returns, the lengths of
\* the trajectories its run_until_biological_spike calls returned sum to
\* len(stimulus).
C1_LengthsSumToStimulus ==
    pc = "returned" => SumSeq(hist.lens) = Len_stimulus

\* C1, amended: when run_with_biological_spikes returns, it has made one
\* call per target spike and one for the tail, and the lengths of the
\* trajectories they returned sum to len(stimulus) less spike_cut_length
\* samples for each target spike.
C1_LengthsSumToStimulusLessCuts ==
    pc = "returned" =>
        /\ Len(hist.lens) = (IF num_spikes = 0 THEN 1 ELSE num_spikes + 1)
        /\ SumSeq(hist.lens) = Len_stimulus - num_spikes * cfg.spike_cut_length

C1_Witness ==
    /\ pc = "returned"
    /\ num_spikes >= 1
    /\ cfg.spike_cut_length >= 1
    /\ Len(hist.lens) = num_spikes + 1

\* ------------------------------------------------------------------- C2
\* C2: a call with init_voltage > init_threshold ends by raising
\* GlifBadInitializationException, with no call of
\* run_until_biological_spike, dynamics or reset made.
C2_RaisesBadInitialization ==
    (calls >= 1 /\ VGt(cfg.init_voltage, cfg.init_threshold)) =>
        /\ pc = "raised"
        /\ outcome.error = "GlifBadInitializationException"
        /\ hist = Hist0

\* ------------------------------------------------------------------- C3
\* C3: when the invalid-state branch of run_until_biological_spike is taken,
\* in whichever interval, run_with_biological_spikes ends by raising
\* GlifNeuronException with voltage, threshold and AScurrent_matrix of
\* length len(stimulus), the interval's partial trajectories at its offset,
\* and the per-spike arrays.
C3_InvalidStateReraisedWithPayload ==
    (pc = "raised" /\ outcome.line \in {561, 272, 294}) =>
        /\ outcome.error = "GlifNeuronException"
        /\ Len(outcome.data.voltage) = Len_stimulus
        /\ Len(outcome.data.threshold) = Len_stimulus
        /\ Len(outcome.data.AScurrent_matrix) = Len_stimulus
        /\ Slice(outcome.data.voltage, ri.start_index, ri.end_index) = run_data.voltage
        /\ Slice(outcome.data.threshold, ri.start_index, ri.end_index) = run_data.threshold
        /\ outcome.data.summary = drv.summary

Above ==
    {t \in 0..(Len(fin.voltage) - 1) : VGt(At(fin.voltage, t), At(fin.threshold, t))}

FirstAbove == CHOOSE t \in Above : \A u \in Above : t <= u

\* C5: find_first_model_spike reports an interior crossing exactly when some
\* index has voltage > threshold, and then for the smallest such index:
\* never for an index with voltage <= threshold, never for a later one.
C5_EarliestStrictCrossing ==
    pc = "fn_done" =>
        /\ (fout.kind = "interior") <=> (Above # {})
        /\ fout.kind = "interior" =>
               /\ fout.grid_model_spike_time = F(fin.dt * (FirstAbove - 1))
               /\ fout.grid_model_spike_voltage = F(At(fin.voltage, FirstAbove - 1))

C5_Witness ==
    /\ pc = "fn_done"
    /\ fout.kind = "interior"
    /\ Cardinality(Above) >= 2
    /\ \E t \in 0..(FirstAbove - 1) : At(fin.voltage, t) = At(fin.threshold, t)

\* ------------------------------------------------------------------- C6
\* the sample before the first crossing is a number
FiniteBefore ==
    IsFinite(At(fin.voltage, FirstAbove - 1)) /\ IsFinite(At(fin.threshold, FirstAbove - 1))

\* C6, as stated: when the first index with voltage > threshold is k > 0,
\* the grid spike time is dt*(k-1) and the interpolated spike time t* has
\* dt*(k-1) < t* < dt*k, also when voltage[k-1] = threshold[k-1] (checked
\* for finite voltage[k-1] and threshold[k-1]).
C6_StrictlyInsideStep ==
    (pc = "fn_done" /\ Above # {} /\ FirstAbove > 0) =>
        /\ fout.grid_model_spike_time = F(fin.dt * (FirstAbove - 1))
        /\ FiniteBefore =>
               /\ FLt(F(fin.dt * (FirstAbove - 1)), fout.interpolated_model_spike_time)
               /\ FLt(fout.interpolated_model_spike_time, F(fin.dt * FirstAbove))

\* C6, amended: when the first index with voltage > threshold is k > 0, the
\* grid spike time is dt*(k-1); and when voltage[k-1] and threshold[k-1] are
\* finite the interpolated spike time t* has dt*(k-1) <= t* < dt*k, with
\* t* = dt*(k-1) exactly when voltage[k-1] = threshold[k-1].
C6_InsideStepFromLeftEnd ==
    (pc = "fn_done" /\ Above # {} /\ FirstAbove > 0) =>
        /\ fout.grid_model_spike_time = F(fin.dt * (FirstAbove - 1))
        /\ FiniteBefore =>
               /\ FLe(F(fin.dt * (FirstAbove - 1)), fout.interpolated_model_spike_time)
               /\ FLt(fout.interpolated_model_spike_time, F(fin.dt * FirstAbove))
               /\ (fout.interpolated_model_spike_time = F(fin.dt * (FirstAbove - 1)))
                      <=> (At(fin.voltage, FirstAbove - 1) = At(fin.threshold, FirstAbove - 1))

C6_Witness ==
    /\ pc = "fn_done"
    /\ Above # {}
    /\ FirstAbove > 1
    /\ At(fin.voltage, FirstAbove - 1) = At(fin.threshold, FirstAbove - 1)
    /\ fout.interpolated_model_spike_time = F(fin.dt * (FirstAbove - 1))

\* ------------------------------------------------------------------- C7
\* n dynamics steps of size dt from state st over stimulus[i:end_index]: the
\* state before each step, then the state after the last
RECURSIVE direct_simulation(_, _, _, _, _)
direct_simulation(st, stimulus, i, end_index, dt) ==
    IF i >= end_index THEN <<st>>
    ELSE <<st>> \o direct_simulation(dynamics(st, At(stimulus, i), dt),
                                     stimulus, i + 1, end_index, dt)

\* the direct simulation of the interval run_until_biological_spike has just
\* gone over
Direct ==
    direct_simulation(hist.runs[Len(hist.runs)].state, cfg.stimulus,
                      ri.start_index, ri.end_index, ri.dt_old)

\* C7: with dt_multiplier = 1, the trajectories run_until_biological_spike
\* returns for an interval of n steps, and the state it ends the interval
\* in, are those of n direct dynamics steps of size dt (checked for the
\* intervals whose direct simulation stays finite).
C7_EqualsDirectSimulation ==
    (pc = "resume" /\ self.dt_multiplier = 1
        /\ \A i \in 1..(ri.num_time_steps_fine + 1) : ~isbad(Direct[i])) =>
        /\ run_data.voltage = [i \in 1..ri.num_time_steps_fine |-> Direct[i].voltage]
        /\ run_data.threshold = [i \in 1..ri.num_time_steps_fine |-> Direct[i].threshold]
        /\ run_data.AScurrent_matrix =
               [i \in 1..ri.num_time_steps_fine |-> Direct[i].AScurrents]
        /\ ri.t1 = Direct[ri.num_time_steps_fine + 1]

SameOutcome(a, b) == a.status = b.status /\ a.error = b.error /\ a.data = b.data

\* C9: the second of two calls with the same arguments on one object ends as
\* the first did: the same trajectories returned, or the same exception
\* with the same data.
C9_SecondCallSameOutcome ==
    (calls = 2 /\ pc \in {"returned", "raised"}) => SameOutcome(outcome, first)

\* ------------------------------------------------------------------ C10
\* C10: a name other than 'endpoints' and 'endpoints_single_tau' makes the
\* construction fail, so that every object run_with_biological_spikes is
\* called on has one of the two strategies; with the name omitted the
\* strategy is 'endpoints'.
C10_UnknownNameFailsConstruction ==
    pc # "new" =>
        /\ (cfg.name_given \notin MethodNames \cup {"omitted"}) =>
               (pc = "construct_failed" /\ outcome.error = "Exception" /\ calls = 0)
        /\ (cfg.name_given \in MethodNames) =>
               (pc # "construct_failed" /\ self.extrapolation_method_name = cfg.name_given)
        /\ (cfg.name_given = "omitted") =>
               (pc # "construct_failed" /\ self.extrapolation_method_name = "endpoints")
        /\ calls > 0 => self.extrapolation_method_name \in MethodNames

C10_Witness ==
    /\ pc = "construct_failed"
    /\ cfg.name_given = "no_such_method"
    /\ outcome.error = "Exception"

\* ------------------------------------------------------------------ C11
\* C11: find_first_model_spike raises for no input, the empty trajectory
\* included, and returns (None, None, None, None) exactly when no index has
\* voltage > threshold and voltage_t1 is not above threshold_t1.
C11_NoneAndNeverRaises ==
    pc = "fn_done" =>
        /\ fout.kind \in {"interior", "boundary", "none"}
        /\ (fout.kind = "none")
               <=> (Above = {} /\ ~VGt(fin.voltage_t1, fin.threshold_t1))

\* ------------------------------------------------------------------ C12
\* the intersection of the line through voltage[0] and voltage_t1 with the
\* line through threshold[0] and threshold_t1, the pairs len(voltage)*dt
\* apart: its time ...
EndpointsTime ==
    FDiv(F(VMul(Len(fin.voltage) * fin.dt, VSub(At(fin.threshold, 0), At(fin.voltage, 0)))),
         F(VSub(VSub(fin.voltage_t1, At(fin.voltage, 0)),
                VSub(fin.threshold_t1, At(fin.threshold, 0)))))

\* ... and its value
EndpointsVoltage ==
    FAdd(F(At(fin.threshold, 0)),
         FDiv(F(VMul(VSub(fin.threshold_t1, At(fin.threshold, 0)),
                     VSub(At(fin.threshold, 0), At(fin.voltage, 0)))),
              F(VSub(VSub(fin.voltage_t1, At(fin.voltage, 0)),
                     VSub(fin.threshold_t1, At(fin.threshold, 0))))))

WindowLength == fout.tau_m \div fin.dt

\* C13: extrapolate_model_spike_from_endpoints_single_tau returns what
\* extrapolate_model_spike_from_endpoints returns on the samples from index
\* max(0, n - floor(tau_m/dt)) of the n, which is the whole interval when
\* floor(tau_m/dt) >= n.
C13_SingleTauWindow ==
    pc = "single_tau_done" =>
        LET n == Len(fin.voltage)
            starting_ind == Max(0, n - WindowLength)
        IN  /\ fout.result =
                   extrapolate_model_spike_from_endpoints(
                       Slice(fin.voltage, starting_ind, n),
                       Slice(fin.threshold, starting_ind, n),
                       fin.voltage_t1, fin.threshold_t1, fin.dt)
            /\ WindowLength >= n =>
                   fout.result = extrapolate_model_spike_from_endpoints(
                                     fin.voltage, fin.threshold,
                                     fin.voltage_t1, fin.threshold_t1, fin.dt)

\* ------------------------------------------------------------------ C14
\* the reset calls made by the run_until_biological_spike call number r
ResetsOf(r) == {i \in 1..Len(hist.resets) : hist.resets[i].run = r}

\* C14: a run_until_biological_spike call with end_index = len(stimulus),
\* the trailing tail or the one interval of a call without target spikes,
\* makes no reset call and returns (None, None, None) as next state.
C14_LastIntervalReturnsNone ==
    (pc = "resume" /\ ri.end_index = Len_stimulus) =>
        /\ ResetsOf(Len(hist.runs)) = {}
        /\ run_data.state_t0 = NoneState

\* ------------------------------------------------------------------ C15
\* C15: an interval that ends at a target spike (end_index < len(stimulus))
\* makes exactly one reset call, after its last dynamics call, with the
\* terminal threshold and after-spike currents and with the terminal
\* voltage, or under 'adapt_sum_slow_fast' the terminal threshold, as
\* voltage; what reset returns is the state the next interval starts from.
C15_ResetAtTargetSpike ==
    /\ (pc = "resume" /\ ri.end_index < Len_stimulus) =>
           /\ Cardinality(ResetsOf(Len(hist.runs))) = 1
           /\ \A i \in ResetsOf(Len(hist.runs)) :
                  /\ i = Len(hist.resets)
                  /\ hist.resets[i].after_dyn = Len(hist.dyn)
                  /\ hist.dyn[Len(hist.dyn)].run = Len(hist.runs)
                  /\ hist.resets[i].threshold = ri.t1.threshold
                  /\ hist.resets[i].AScurrents = ri.t1.AScurrents
                  /\ hist.resets[i].voltage =
                         (IF cfg.threshold_reset_method = "adapt_sum_slow_fast"
                          THEN ri.t1.threshold ELSE ri.t1.voltage)
                  /\ run_data.state_t0 = hist.resets[i].returned
    /\ \A i \in 1..Len(hist.resets) :
           /\ Cardinality(ResetsOf(hist.resets[i].run)) = 1
           /\ hist.resets[i].run < Len(hist.runs) =>
                  hist.runs[hist.resets[i].run + 1].state = hist.resets[i].returned

C15_Witness ==
    /\ Len(hist.runs) = 2
    /\ Len(hist.resets) = 1
    /\ cfg.threshold_reset_method = "adapt_sum_slow_fast"
    /\ hist.resets[1].voltage = hist.resets[1].threshold
    /\ hist.dyn[hist.resets[1].after_dyn].state.voltage # hist.resets[1].threshold
    /\ hist.runs[2].state = hist.resets[1].returned

\* ------------------------------------------------------------------ C16
\* C16: when the check before a dynamics call finds a non-finite state, at
\* whichever coarse step, run_until_biological_spike raises
\* GlifNeuronException, and no other exception, with voltage, threshold and
\* AScurrent_matrix of the interval's fine-grid length.
C16_InvalidStateRaisesGlifNeuronException ==
    (pc = "except" \/ (pc = "raised" /\ outcome.line = 561)) =>
        /\ pc = "except"
        /\ Len(run_data.voltage) = ri.end_index - ri.start_index
        /\ Len(run_data.threshold) = ri.end_index - ri.start_index
        /\ Len(run_data.AScurrent_matrix) = ri.end_index - ri.start_index

\* ------------------------------------------------------------------ C17
\* C17: outside a dynamics call, and when run_until_biological_spike
\* returns or raises for a non-finite state, self.dt has the value it had
\* when run_until_biological_spike was entered.
C17_DtAsAtEntry ==
    (pc \in {"ri_loop", "ri_after", "resume", "except"}
        \/ (pc = "raised" /\ outcome.line = 561)) =>
        self.dt = ri.dt_old

\* ------------------------------------------------------------------ C18
\* the interval of the i-th run_until_biological_spike call of a call with
\* target spikes
ExpectedStart(i) ==
    IF i = 1 THEN 0 ELSE cfg.bio_spike_time_steps[i - 1] + cfg.spike_cut_length

ExpectedEnd(i) ==
    IF i <= num_spikes THEN cfg.bio_spike_time_steps[i] ELSE Len_stimulus

\* C18: with target spikes s_0 < ... < s_(k-1) and cut c the calls of
\* run_until_biological_spike are made, in this order, over [0, s_0),
\* [s_0 + c, s_1), ..., [s_(k-2) + c, s_(k-1)) and [s_(k-1) + c,
\* len(stimulus)); one per-spike entry is recorded for each interval that
\* ends at a spike and none for the last, k in all on return.
C18_IntervalsInOrder ==
    (pc \notin {"new", "construct_failed"} /\ num_spikes >= 1) =>
        /\ Len(hist.runs) <= num_spikes + 1
        /\ \A i \in 1..Len(hist.runs) :
               /\ hist.runs[i].start_index = ExpectedStart(i)
               /\ hist.runs[i].end_index = ExpectedEnd(i)
        /\ \A name \in DOMAIN drv.summary :
               Len(drv.summary[name]) =
                   (IF pc = "resume" THEN Len(hist.lens) - 1
                    ELSE Min(Len(hist.lens), num_spikes))
        /\ pc = "returned" =>
               /\ Len(hist.runs) = num_spikes + 1
               /\ \A name \in DOMAIN outcome.data.summary :
                      Len(outcome.data.summary[name]) = num_spikes

C18_Witness ==
    /\ pc = "returned"
    /\ num_spikes = 2
    /\ Len(hist.runs) = 3
    /\ hist.runs[3].start_index = cfg.bio_spike_time_steps[2] + cfg.spike_cut_length
    /\ Len(outcome.data.summary.grid_ISI) = 2

\* ------------------------------------------------------------------ C19
\* C19: every dynamics call is made with self.dt equal to the width of its
\* coarse bin, (b - a) * dt for the bin [a, b), and so with a positive step.
C19_StepIsBinWidth ==
    \A i \in 1..Len(hist.dyn) :
        /\ hist.dyn[i].dt = (hist.dyn[i].bin[2] - hist.dyn[i].bin[1]) * cfg.dt
        /\ hist.dyn[i].dt > 0

\* ------------------------------------------------------------------ C20
\* the dynamics calls of the run_until_biological_spike call in progress
DynOfRun == {i \in 1..Len(hist.dyn) : hist.dyn[i].run = Len(hist.runs)}

\* C20: for an interval of n fine steps and refinement factor m the coarse
\* boundaries are 0, m, 2m, ... below n and then n, and a completed
\* interval has made ceil(n/m) dynamics calls, one per coarse bin, in
\* increasing bin order.
C20_OneDynamicsCallPerBin ==
    pc = "resume" =>
        LET n == ri.num_time_steps_fine
            m == self.dt_multiplier
            bins == CeilDiv(n, m)
            before == Len(hist.dyn) - bins
        IN  /\ Len(ri.local_coarse_indicies) = bins + 1
            /\ \A j \in 1..bins : ri.local_coarse_indicies[j] = (j - 1) * m
            /\ ri.local_coarse_indicies[bins + 1] = n
            /\ DynOfRun = (before + 1)..Len(hist.dyn)
            /\ \A j \in 1..bins :
                   hist.dyn[before + j].bin = <<(j - 1) * m, Min(j * m, n)>>

C20_Witness ==
    /\ pc = "resume"
    /\ self.dt_multiplier = 2
    /\ ri.num_time_steps_fine = 3
    /\ Cardinality(DynOfRun) = 2
    /\ hist.dyn[Len(hist.dyn)].bin = <<2, 3>>

\* ------------------------------------------------------------------ C21
\* the common value of the voltage line and the threshold line through the
\* samples FirstAbove - 1 and FirstAbove at their intersection
CrossingValue ==
    line_crossing_y(fin.dt,
        At(fin.voltage, FirstAbove - 1), At(fin.voltage, FirstAbove),
        At(fin.threshold, FirstAbove - 1), At(fin.threshold, FirstAbove))

\* C21: on an interior hit at index t > 0 with finite samples at t - 1 the
\* interpolated spike voltage is the common value of the two lines at their
\* intersection, and lies between threshold[t-1] and threshold[t].
C21_VoltageAtIntersection ==
    (pc = "fn_done" /\ Above # {} /\ FirstAbove > 0 /\ FiniteBefore) =>
        /\ fout.interpolated_model_spike_voltage = CrossingValue
        /\ FLe(F(Min(At(fin.threshold, FirstAbove - 1), At(fin.threshold, FirstAbove))),
               fout.interpolated_model_spike_voltage)
        /\ FLe(fout.interpolated_model_spike_voltage,
               F(Max(At(fin.threshold, FirstAbove - 1), At(fin.threshold, FirstAbove))))

\* ------------------------------------------------------------------ C22
\* C22: the grid_bio_spike_model_voltage and grid_bio_spike_model_threshold
\* recorded for a biological spike are the voltage and the threshold that
\* the last dynamics call of its interval produced, under every threshold
\* reset method.
C22_DiagnosticsAreTerminalState ==
    (pc = "for_spike" /\ drv.spike_num >= 1) =>
        /\ Len(drv.summary.grid_bio_spike_model_voltage) = drv.spike_num
        /\ At(drv.summary.grid_bio_spike_model_voltage, -1) = ri.t1.voltage
        /\ At(drv.summary.grid_bio_spike_model_threshold, -1) = ri.t1.threshold

\* ------------------------------------------------------------------ C23
\* spike i leaves no sample between the previous blanked spike and itself
EmptyInterval(i) == cfg.bio_spike_time_steps[i] <= ExpectedStart(i)

\* C23: when target spike i leaves an empty interval (s_0 <= 0, or
\* s_i <= s_(i-1) + spike_cut_length), run_with_biological_spikes raises the
\* assertion failure on reaching that spike: run_until_biological_spike is
\* never entered for it, so no dynamics or reset call is made for it, and
\* the call does not return a result.
C23_EmptyIntervalFailsPrecondition ==
    pc \notin {"new", "construct_failed"} =>
        /\ \A i \in 1..Min(Len(hist.runs), num_spikes) : ~EmptyInterval(i)
        /\ \A i \in 1..Len(hist.dyn) :
               hist.dyn[i].run <= num_spikes => ~EmptyInterval(hist.dyn[i].run)
        /\ \A i \in 1..Len(hist.resets) : ~EmptyInterval(hist.resets[i].run)
        /\ (pc = "raised" /\ outcome.line = 195) =>
               /\ outcome.error = "AssertionError"
               /\ Len(hist.runs) = drv.spike_num
               /\ EmptyInterval(drv.spike_num + 1)
        /\ (pc = "raised" /\ drv.which = "spike" /\ Len(hist.runs) = drv.spike_num
                /\ drv.spike_num < num_spikes /\ outcome.line # 121) =>
               outcome.line = 195
        /\ pc = "returned" => \A i \in 1..num_spikes : ~EmptyInterval(i)

C23_Witness ==
    /\ pc = "raised"
    /\ outcome.error = "AssertionError"
    /\ drv.spike_num = 1
    /\ cfg.spike_cut_length >= 1
    /\ cfg.bio_spike_time_steps[2] = cfg.bio_spike_time_steps[1] + cfg.spike_cut_length
    /\ Len(hist.runs) = 1

FirstDynOf(r) ==
    CHOOSE i \in 1..Len(hist.dyn) :
        /\ hist.dyn[i].run = r
        /\ \A j \in 1..(i - 1) : hist.dyn[j].run # r

\* C25: the first interval starts from (init_voltage, init_threshold,
\* init_AScurrents); every later interval, the tail included, starts from
\* the triple that the reset call ending the interval before it returned;
\* the dynamics calls are made interval after interval, and none of
\* interval i+1 before the reset call of interval i.
C25_IntervalsSequential ==
    /\ \A r \in 1..Len(hist.runs) :
           /\ r = 1 => hist.runs[r].state =
                  State(cfg.init_voltage, cfg.init_threshold, cfg.init_AScurrents)
           /\ r > 1 =>
                  /\ Cardinality(ResetsOf(r - 1)) = 1
                  /\ \A i \in ResetsOf(r - 1) :
                         hist.runs[r].state = hist.resets[i].returned
           /\ (\E i \in 1..Len(hist.dyn) : hist.dyn[i].run = r) =>
                  hist.dyn[FirstDynOf(r)].state = hist.runs[r].state
    /\ \A i \in 1..Len(hist.dyn) :
           /\ hist.dyn[i].run \in 1..Len(hist.runs)
           /\ i > 1 => hist.dyn[i - 1].run <= hist.dyn[i].run
           /\ \A j \in 1..Len(hist.resets) :
                  hist.resets[j].run < hist.dyn[i].run => hist.resets[j].after_dyn < i

C25_Witness ==
    /\ Len(hist.runs) = 3
    /\ drv.which = "tail"
    /\ hist.dyn[Len(hist.dyn)].run = 3
    /\ Len(hist.resets) = 2
    /\ hist.runs[3].state = hist.resets[2].returned
    /\ hist.runs[3].state # hist.runs[2].state

\* ------------------------------------------------------------------ C26
\* the indices blanked after a target spike
Blanked ==
    {i \in 0..(Len_stimulus - 1) :
        \E j \in 1..num_spikes :
            /\ cfg.bio_spike_time_steps[j] <= i
            /\ i < cfg.bio_spike_time_steps[j] + cfg.spike_cut_length}

\* the indices inside an interval that was simulated
Simulated ==
    {i \in 0..(Len_stimulus - 1) :
        \E r \in 1..Len(hist.runs) :
            hist.runs[r].start_index <= i /\ i < hist.runs[r].end_index}

\* how many slice assignments wrote index i of the full-length arrays
TimesWritten(i) ==
    Cardinality({w \in 1..Len(hist.writes) :
                    hist.writes[w].lo <= i /\ i < hist.writes[w].hi})

\* C26: when a call with at least one target spike returns, the simulated
\* intervals do not overlap, every index inside one was written exactly
\* once in the full-length arrays, and the spike_cut_length indices from
\* each target spike on were never written and hold nan in the returned
\* voltage, threshold and AScurrent_matrix.
C26_WrittenOnceAndBlankedNaN ==
    (pc = "returned" /\ num_spikes >= 1) =>
        /\ \A r \in 1..(Len(hist.runs) - 1) :
               hist.runs[r].end_index <= hist.runs[r + 1].start_index
        /\ Simulated \cup Blanked = 0..(Len_stimulus - 1)
        /\ Simulated \cap Blanked = {}
        /\ \A i \in Simulated : TimesWritten(i) = 1
        /\ \A i \in Blanked :
               /\ TimesWritten(i) = 0
               /\ At(outcome.data.voltage, i) = NaN
               /\ At(outcome.data.threshold, i) = NaN
               /\ At(outcome.data.AScurrent_matrix, i) = NaN

C26_Witness ==
    /\ pc = "returned"
    /\ num_spikes >= 1
    /\ cfg.spike_cut_length = MaxCut
    /\ Cardinality(Blanked) = num_spikes * MaxCut
    /\ Len(hist.writes) = num_spikes + 1
    /\ \A i \in Simulated : IsFinite(At(outcome.data.voltage, i))

\* ------------------------------------------------------------------ C27
\* the target spikes are inside the stimulus with gaps longer than the cut,
\* the initial state passes the guard, and all values handed to dynamics
\* are finite
WellFormedInput ==
    /\ \A i \in 1..num_spikes :
           /\ ~EmptyInterval(i)
           /\ cfg.bio_spike_time_steps[i] < Len_stimulus
    /\ \A i \in 1..Len_stimulus : IsFinite(cfg.stimulus[i])
    /\ IsFinite(cfg.init_voltage)
    /\ ~VGt(cfg.init_voltage, cfg.init_threshold)

\* C27: on such input with at least one target spike
\* run_with_biological_spikes does not raise, also when the last spike index
\* plus spike_cut_length reaches len(stimulus) and the tail is empty.
C27_ReturnsOnWellFormedInput ==
    (pc \notin {"new", "construct_failed"} /\ WellFormedInput /\ num_spikes >= 1) =>
        pc # "raised"

\* ------------------------------------------------------------------ C28
\* C28: the step index passed to a dynamics call is the global fine-grid
\* index of the first sample of its coarse bin, start_index plus the bin's
\* first local index, for every dt_multiplier.
C28_StepIndexIsFineGridIndex ==
    \A i \in 1..Len(hist.dyn) :
        hist.dyn[i].time_step =
            hist.runs[hist.dyn[i].run].start_index + hist.dyn[i].bin[1]

\* ------------------------------------------------------------------ C29
\* the first index of the window that single_tau extrapolates over
WindowStart == Max(0, Len(fin.voltage) - WindowLength)

\* the time, counted from the start of the interval, at which the lines
\* through the window's first sample and the one-past-end values cross
CrossingFromIntervalStart ==
    FAdd(F(WindowStart * fin.dt),
         line_crossing_x(fin.dt * (Len(fin.voltage) - WindowStart),
             At(fin.voltage, WindowStart), fin.voltage_t1,
             At(fin.threshold, WindowStart), fin.threshold_t1))

\* C29: the spike times that
\* extrapolate_model_spike_from_endpoints_single_tau returns are counted
\* from the start of the interval, as those of
\* extrapolate_model_spike_from_endpoints and find_first_model_spike are,
\* also when the window starts at an index greater than 0.
C29_SingleTauTimesFromIntervalStart ==
    (pc = "single_tau_done" /\ fout.result.kind = "extrapolated"
        /\ FIsFinite(fout.result.interpolated_model_spike_time)) =>
        /\ fout.result.interpolated_model_spike_time = CrossingFromIntervalStart
        /\ fout.result.grid_model_spike_time =
               FMul(FCeil(FDiv(CrossingFromIntervalStart, F(fin.dt))), F(fin.dt))

====
